---- MODULE Spec2Model ----
(***************************************************************************)
(* Model of notebooks/01_autoloader_encrypt_pii.py: an Auto Loader stream   *)
(* that reads CSV files from the landing Volume, applies the PII policy     *)
(* (Fernet encryption, SHA-256 hashing, dropping) and appends the result to *)
(* a Delta table, plus the two SQL views (clear, masked) over that table.   *)
(*                                                                         *)
(* Strings are sequences of Unicode code points.  SQL NULL / Python None is *)
(* the value NULL.  A Fernet token, a SHA-256 digest and the rescued data   *)
(* are strings in the program; here they keep their structure (version, iv, *)
(* ciphertext, hmac / digest preimage / rescued fields) so that decryption *)
(* and verification are computed.                                           *)
(*                                                                         *)
(* The stream is modelled as Structured Streaming runs it for the options   *)
(* the notebook sets: the offsets of a micro-batch are logged under         *)
(* checkpointLocation before the batch runs and the batch is recorded as    *)
(* committed after the sink has taken it; a log entry is written only if    *)
(* its batch id is not there yet; the Delta sink records the batch id with  *)
(* its append, skips a batch id it has recorded, and refuses a commit when  *)
(* another commit of the same query was made since its transaction began.   *)
(*                                                                         *)
(* decrypt_value is registered for the session and the two views are       *)
(* created over it; a query on a view is modelled as the SELECT of the      *)
(* view's definition run in that session.                                   *)
(*                                                                         *)
(* The source has no schema, so Auto Loader infers one from the files that  *)
(* are in the landing Volume when the stream first starts (with column      *)
(* types, inferColumnTypes = true), keeps it with the checkpoint, and adds  *)
(* the column _rescued_data, which takes every value that does not parse as *)
(* its column's type.  An empty field is read as NULL (the reader's         *)
(* nullValue is the empty string).  The files of one run share their        *)
(* header.  The fields drawn are empty, signed or unsigned digit strings,   *)
(* or hold a letter, so the types inferred are long and string.             *)
(***************************************************************************)
EXTENDS Integers, Sequences, FiniteSets, TLC

(* ------------------------------ bounds -------------------------------- *)

\* Longest plaintext value drawn for a PII column (the views keep 1, 4 and
\* 10 characters, so lengths on both sides of each keep-length occur).
MaxLen == 11
\* Number of distinct initialisation vectors os.urandom can return.
NumIV == 2
\* Number of Fernet keys ENCRYPTION_KEY can be set to.
NumKeys == 2
\* Number of files that can arrive in the landing Volume.
NumFiles == 2
\* Number of times a running query is stopped or crashes.
MaxStops == 1

(* --------------------------- values, strings --------------------------- *)

NULL == [null |-> TRUE]

Str(s) == [str |-> s]

IsStr(v) == "str" \in DOMAIN v

\* A value of a column typed as a number.
Long(n) == [long |-> n]

IsLong(v) == "long" \in DOMAIN v

\* A value that is a str in Python: a plain string, a token, a digest or
\* the rescued data.
IsPyStr(v) == v # NULL /\ ~IsLong(v) /\ "raise" \notin DOMAIN v

\* The text after a leading '+' or '-'.
Unsigned(s) == IF s # <<>> /\ s[1] \in {43, 45} THEN Tail(s) ELSE s

\* The text reads as a number (toInt / toLong): digits after an optional
\* sign.
IsDigits(s) ==
  LET u == Unsigned(s)
  IN  u # <<>> /\ \A i \in DOMAIN u : u[i] \in 48 .. 57

RECURSIVE ToNat(_)
ToNat(s) ==
  IF s = <<>> THEN 0
  ELSE ToNat(SubSeq(s, 1, Len(s) - 1)) * 10 + (s[Len(s)] - 48)

\* The number a signed digit string reads as.
ToLong(s) == IF s[1] = 45 THEN 0 - ToNat(Tail(s)) ELSE ToNat(Unsigned(s))

RECURSIVE ToDigits(_)
\* The decimal text of a number, as a cast to string gives it.
ToDigits(n) ==
  IF n < 0 THEN <<45>> \o ToDigits(0 - n)
  ELSE IF n < 10 THEN <<48 + n>>
  ELSE ToDigits(n \div 10) \o <<48 + (n % 10)>>

\* Code points of "alécex.@org51289": one of them (233) is outside ASCII.
Text == <<97, 108, 233, 99, 101, 120, 46, 64, 111, 114, 103, 53, 49, 50, 56, 57>>

Prefix(n) == Str(SubSeq(Text, 1, n))

\* '***'
Marker == <<42, 42, 42>>

RECURSIVE Utf8Encode(_)
\* str.encode("utf-8") for code points below 2048.
Utf8Encode(s) ==
  IF s = <<>> THEN <<>>
  ELSE LET c == Head(s)
       IN  (IF c < 128 THEN <<c>> ELSE <<192 + (c \div 64), 128 + (c % 64)>>)
           \o Utf8Encode(Tail(s))

RECURSIVE Utf8Decode(_)
\* bytes.decode("utf-8") for one- and two-byte sequences.
Utf8Decode(b) ==
  IF b = <<>> THEN <<>>
  ELSE IF Head(b) < 128 THEN <<Head(b)>> \o Utf8Decode(Tail(b))
  ELSE <<(Head(b) - 192) * 64 + (b[2] - 128)>> \o Utf8Decode(Tail(Tail(b)))

(* -------------------------------- Fernet ------------------------------- *)

Keys == 1 .. NumKeys

IVs == 0 .. (NumIV - 1)

\* The keystream byte the cipher combines with plaintext byte i.
KeyStream(k, iv, i) == (k * 17 + iv * 5 + i) % 256

\* The MAC over iv and ciphertext under key k: different for any two
\* different inputs.
Hmac(k, iv, ct) == <<k, iv, ct>>

\* str.encode("utf-8"): the bytes of a plain string; the text of a token,
\* a digest or the rescued data is kept whole.
Encode(value) ==
  IF IsStr(value) THEN [bytes |-> Utf8Encode(value.str)] ELSE [text |-> value]

\* bytes.decode("utf-8").
Decode(data) ==
  IF "bytes" \in DOMAIN data THEN Str(Utf8Decode(data.bytes)) ELSE data.text

\* Fernet(k).encrypt(data) with initialisation vector iv.
FernetEncrypt(k, iv, data) ==
  LET ct == IF "bytes" \in DOMAIN data
            THEN [bytes |-> [i \in 1 .. Len(data.bytes) |->
                               (data.bytes[i] + KeyStream(k, iv, i)) % 256]]
            ELSE [sealed |-> data.text, key |-> k, iv |-> iv]
  IN  [version |-> 128, iv |-> iv, ciphertext |-> ct, hmac |-> Hmac(k, iv, ct)]

IsToken(v) == DOMAIN v = {"version", "iv", "ciphertext", "hmac"}

InvalidToken == [raise |-> "InvalidToken"]

\* value.encode on a value that is not a str.
AttributeError == [raise |-> "AttributeError"]

IsRaise(v) == "raise" \in DOMAIN v

\* Fernet(k).decrypt(token): verifies the token, then decrypts; the result
\* is the exception raised or the plaintext bytes.
FernetDecrypt(k, token) ==
  IF ~IsToken(token) THEN InvalidToken
  ELSE IF token.version # 128 THEN InvalidToken
  ELSE IF token.hmac # Hmac(k, token.iv, token.ciphertext) THEN InvalidToken
  ELSE LET ct == token.ciphertext
       IN  [data |-> IF "bytes" \in DOMAIN ct
                     THEN [bytes |-> [i \in 1 .. Len(ct.bytes) |->
                             (ct.bytes[i] + 256 - KeyStream(k, token.iv, i)) % 256]]
                     ELSE [text |-> ct.sealed]]

(* ------------------------------- state --------------------------------- *)

VARIABLES
  FERNET,           \* the key of FERNET = Fernet(ENCRYPTION_KEY)
  ENCRYPT_COLUMNS,  \* the policy lists
  HASH_COLUMNS,
  DROP_COLUMNS,
  landing,          \* RAW_PATH: file -> its header and the fields of its rows
  schema,           \* the schema Auto Loader inferred and keeps, <<>> before
  offsetLog,        \* CHECKPOINT_PATH/offsets: batch id -> files of the batch
  commitLog,        \* CHECKPOINT_PATH/commits: batch ids
  bronze,           \* BRONZE_PATH: the Delta log, a sequence of commits
  pending,          \* per query instance: the open transaction of its sink
  pc,               \* per query instance: where it is in its micro-batch
  cur,              \* per query instance: its current batch id
  stops,            \* number of stops so far
  result,           \* the result of the last query on a view
  writers,          \* history: batch id -> instances whose write was appended
  cut,              \* history: batches whose writer stopped before the commit
  reruns            \* history: batches run again after such a stop

vars == <<FERNET, ENCRYPT_COLUMNS, HASH_COLUMNS, DROP_COLUMNS, landing, schema,
          offsetLog, commitLog, bronze, pending, pc, cur, stops, result,
          writers, cut, reruns>>

Files == 1 .. NumFiles

Instances == {1, 2}

Range(s) == {s[i] : i \in DOMAIN s}

(* --------------------------- field functions --------------------------- *)

\* os.urandom inside Fernet.encrypt: every call draws on its own; draws
\* holds what each call of a batch gets.
urandom(draws, call) == draws[call]

\* encrypt_value with "if not value" for "if value is None".
encrypt_value_falsy(value, iv) ==
  IF value = NULL \/ value = Str(<<>>) THEN NULL
  ELSE IF IsLong(value) THEN AttributeError
  ELSE FernetEncrypt(FERNET, iv, Encode(value))

\* encrypt_value, with the initialisation vector its call draws.  The UDF
\* hands it the column's value as Python has it: a number has no encode.
encrypt_value(value, iv) ==
  IF value = NULL THEN NULL
  ELSE IF IsLong(value) THEN AttributeError
  ELSE FernetEncrypt(FERNET, iv, Encode(value))

\* _decrypt_one: None stays None; value.encode raises AttributeError on a
\* value that is not a str; FERNET.decrypt may raise InvalidToken.
decrypt_one(value) ==
  IF value = NULL THEN NULL
  ELSE IF IsLong(value) THEN AttributeError
  ELSE LET got == FernetDecrypt(FERNET, value)
       IN  IF IsRaise(got) THEN got ELSE Decode(got.data)

\* The pandas UDF decrypt_value on a column: col_series.apply goes through
\* the elements in order, and the first exception an element raises ends
\* the UDF, and with it the query that evaluates it.
decrypt_value(col_series) ==
  LET out == [i \in DOMAIN col_series |-> decrypt_one(col_series[i])]
      raising == {i \in DOMAIN out : IsRaise(out[i])}
  IN  IF raising # {}
      THEN out[CHOOSE i \in raising : \A j \in raising : i <= j]
      ELSE [series |-> out]

\* The text of a value as col.cast("string") gives it: a plain string's
\* UTF-8 bytes, a number's decimal digits; a token or a digest is kept whole.
CastBytes(v) ==
  IF IsStr(v) THEN Utf8Encode(v.str)
  ELSE IF "long" \in DOMAIN v THEN ToDigits(v.long)
  ELSE v

\* sha2(col.cast("string"), 256): NULL for NULL, else the digest.  A value
\* whose own expression raised has raised before sha2 sees it.
sha2(v) ==
  IF v = NULL THEN NULL
  ELSE IF IsRaise(v) THEN v
  ELSE [sha256 |-> CastBytes(v)]

IsDigest(v) == DOMAIN v = {"sha256"}

NumBytes(s) == Len(Utf8Encode(s))

Max(a, b) == IF a >= b THEN a ELSE b

Min(a, b) == IF a <= b THEN a ELSE b

\* substr that counts a negative position from the start of the string.
substr_forward(v, pos, len) ==
  IF v = NULL THEN NULL
  ELSE LET n == Len(v.str)
           start == IF pos > 0 THEN pos - 1 ELSE 0
       IN  Str(SubSeq(v.str, start + 1, Min(start + len, n)))

\* Spark SQL substr(str, pos, len) (UTF8String.substringSQL).
substr(v, pos, len) ==
  IF v = NULL THEN NULL
  ELSE LET n == Len(v.str)
           start == IF pos > 0 THEN pos - 1 ELSE IF pos < 0 THEN n + pos ELSE 0
           until == start + len
       IN  IF until <= start \/ start >= NumBytes(v.str) THEN Str(<<>>)
           ELSE Str(SubSeq(v.str, Max(start, 0) + 1, Min(until, n)))

\* concat that skips NULL arguments, as concat_ws does.
concat_skip_null(a, b) ==
  IF a = NULL THEN b ELSE IF b = NULL THEN a ELSE Str(a.str \o b.str)

\* Spark SQL concat: NULL when any argument is NULL.
concat(a, b) ==
  IF a = NULL \/ b = NULL THEN NULL ELSE Str(a.str \o b.str)

(* ------------------------------ DataFrame ------------------------------ *)

\* withColumn that drops an existing column and adds it again at the end.
withColumn_readd(df, name, vals) ==
  [columns |-> Append(SelectSeq(df.columns, LAMBDA c : c # name), name),
   rows |-> [i \in DOMAIN df.rows |->
               [c \in Range(df.columns) \cup {name} |->
                  IF c = name THEN vals[i] ELSE df.rows[i][c]]]]

\* DataFrame.withColumn: replaces the column in place when it exists,
\* else adds it at the end; vals are the new values, one per row.
withColumn(df, name, vals) ==
  [columns |-> IF name \in Range(df.columns) THEN df.columns
               ELSE Append(df.columns, name),
   rows |-> [i \in DOMAIN df.rows |->
               [c \in Range(df.columns) \cup {name} |->
                  IF c = name THEN vals[i] ELSE df.rows[i][c]]]]

\* DataFrame.drop.
drop(df, name) ==
  [columns |-> SelectSeq(df.columns, LAMBDA c : c # name),
   rows |-> [i \in DOMAIN df.rows |->
               [c \in Range(df.columns) \ {name} |-> df.rows[i][c]]]]

\* The calls of encrypt_value that reach FERNET.encrypt, <<j, row>> for the
\* j-th name of the list: those on a value that is a str (it is one again
\* after an earlier call on the same column).
Calls(df, names) ==
  {call \in (DOMAIN names) \X (DOMAIN df.rows) :
     /\ names[call[1]] \in Range(df.columns)
     /\ IsPyStr(df.rows[call[2]][names[call[1]]])}

RECURSIVE EncryptLoop(_, _, _, _)
\* for name in ENCRYPT_COLUMNS: if name in result.columns: withColumn(...)
\* from the j-th name on.  A call that returns or raises before
\* FERNET.encrypt draws nothing; a value whose expression has raised stays
\* raised.
EncryptLoop(df, names, draws, j) ==
  IF j > Len(names) THEN df
  ELSE LET name == names[j]
           next == IF name \in Range(df.columns)
                   THEN withColumn(df, name,
                          [i \in DOMAIN df.rows |->
                             LET value == df.rows[i][name]
                             IN  IF IsRaise(value) THEN value
                                 ELSE IF IsPyStr(value)
                                 THEN encrypt_value(value, urandom(draws, <<j, i>>))
                                 ELSE encrypt_value(value, 0)])
                   ELSE df
       IN  EncryptLoop(next, names, draws, j + 1)

RECURSIVE HashLoop(_, _)
\* for name in HASH_COLUMNS: if name in result.columns: withColumn(sha2)
HashLoop(df, names) ==
  IF names = <<>> THEN df
  ELSE LET name == Head(names)
           next == IF name \in Range(df.columns)
                   THEN withColumn(df, name,
                          [i \in DOMAIN df.rows |-> sha2(df.rows[i][name])])
                   ELSE df
       IN  HashLoop(next, Tail(names))

RECURSIVE DropLoop(_, _)
\* for name in DROP_COLUMNS: if name in result.columns: drop(name)
DropLoop(df, names) ==
  IF names = <<>> THEN df
  ELSE LET name == Head(names)
           next == IF name \in Range(df.columns) THEN drop(df, name) ELSE df
       IN  DropLoop(next, Tail(names))

\* apply_pii_policy: encrypt, then hash, then drop.
apply_pii_policy(df, draws) ==
  DropLoop(HashLoop(EncryptLoop(df, ENCRYPT_COLUMNS, draws, 1), HASH_COLUMNS),
           DROP_COLUMNS)

\* The exception the batch's job ends with when a column expression of a
\* stored column raises, as a set (empty when none does).
Raised(df) ==
  {df.rows[i][c] : i \in DOMAIN df.rows, c \in Range(df.columns)}
    \cap {AttributeError}

(* ------------------------------ the views ------------------------------ *)

Column(rows, name) == [i \in DOMAIN rows |-> rows[i][name]]

\* The exception a query ends with when some of its UDF calls raise: that
\* of the first call, in the order of the select list, that raises.
FirstRaise(calls) ==
  calls[CHOOSE k \in DOMAIN calls :
          IsRaise(calls[k]) /\ \A j \in 1 .. (k - 1) : ~IsRaise(calls[j])]

\* CREATE VIEW v_customers_clear: the query fails when a UDF call raises.
v_customers_clear(rows) ==
  LET full_name == decrypt_value(Column(rows, "full_name"))
      email == decrypt_value(Column(rows, "email"))
      phone == decrypt_value(Column(rows, "phone"))
  IN  IF IsRaise(full_name) \/ IsRaise(email) \/ IsRaise(phone)
      THEN FirstRaise(<<full_name, email, phone>>)
      ELSE [rows |-> [i \in DOMAIN rows |->
              [customer_id |-> rows[i]["customer_id"],
               full_name |-> full_name.series[i],
               email |-> email.series[i],
               phone |-> phone.series[i],
               national_id |-> rows[i]["national_id"],
               city |-> rows[i]["city"]]]]

\* CREATE VIEW v_customers_masked.
v_customers_masked(rows) ==
  LET full_name == decrypt_value(Column(rows, "full_name"))
      email == decrypt_value(Column(rows, "email"))
      phone == decrypt_value(Column(rows, "phone"))
  IN  IF IsRaise(full_name) \/ IsRaise(email) \/ IsRaise(phone)
      THEN FirstRaise(<<full_name, email, phone>>)
      ELSE [rows |-> [i \in DOMAIN rows |->
              [customer_id |-> rows[i]["customer_id"],
               full_name_masked |->
                 concat(substr(full_name.series[i], 1, 1), Str(Marker)),
               email_masked |->
                 concat(Str(Marker), substr(email.series[i], -10, 10)),
               phone_masked |->
                 concat(Str(Marker), substr(phone.series[i], -4, 4)),
               national_id |-> rows[i]["national_id"],
               city |-> rows[i]["city"]]]]

(* --------------------- the stream: source and sink --------------------- *)

RECURSIVE Flatten(_)
Flatten(ss) == IF ss = <<>> THEN <<>> ELSE Head(ss) \o Flatten(Tail(ss))

RECURSIVE Ascending(_)
\* The elements of a finite set of numbers, smallest first.
Ascending(S) ==
  IF S = {} THEN <<>>
  ELSE LET m == CHOOSE x \in S : \A y \in S : x <= y
       IN  <<m>> \o Ascending(S \ {m})

\* The type inferColumnTypes gives a column with these fields: a number
\* when every field that is not empty is one, else string.
InferType(fields) ==
  LET filled == {v \in fields : v # NULL /\ v.str # <<>>}
  IN  IF filled # {} /\ \A v \in filled : IsDigits(v.str) THEN "long"
      ELSE "string"

\* The schema Auto Loader infers from the files fs: the header's columns,
\* typed, and the rescued data column after them.
InferSchema(fs) ==
  LET header == landing[Ascending(fs)[1]].columns
  IN  [k \in DOMAIN header |->
         [name |-> header[k],
          type |-> InferType(UNION {{landing[f].rows[r][header[k]] :
                                       r \in DOMAIN landing[f].rows} :
                                     f \in fs})]]
      \o << [name |-> "_rescued_data", type |-> "string"] >>

\* The value of a CSV field read as a column of the type: an empty field,
\* quoted or not, reads as NULL, and so does a field that does not parse as
\* the type.
ParseField(type, v) ==
  IF v = NULL \/ v.str = <<>> THEN NULL
  ELSE IF type = "string" THEN v
  ELSE IF IsDigits(v.str) THEN Long(ToLong(v.str))
  ELSE NULL

\* The field does not parse as the type.
Mismatch(type, v) ==
  type = "long" /\ v # NULL /\ v.str # <<>> /\ ~IsDigits(v.str)

\* A row of file f read under the schema: the typed columns, and in
\* _rescued_data the fields that did not parse, with the file's path.
ParseRow(sch, f, row) ==
  LET names == {sch[k].name : k \in DOMAIN sch}
      typeOf(c) == sch[CHOOSE k \in DOMAIN sch : sch[k].name = c].type
      bad == {c \in (names \ {"_rescued_data"}) \cap DOMAIN row :
                Mismatch(typeOf(c), row[c])}
  IN  [c \in names |->
         IF c = "_rescued_data"
         THEN IF bad = {} THEN NULL
              ELSE [rescued |-> [b \in bad |-> row[b]], file_path |-> f]
         ELSE IF c \in DOMAIN row THEN ParseField(typeOf(c), row[c])
         ELSE NULL]

\* spark.readStream...load(RAW_PATH) for one micro-batch: the rows of the
\* batch's files read under the inferred schema.
source_df(fs) ==
  LET order == Ascending(fs)
  IN  [columns |-> [k \in DOMAIN schema |-> schema[k].name],
       rows |-> Flatten([k \in DOMAIN order |->
                  [r \in DOMAIN landing[order[k]].rows |->
                     ParseRow(schema, order[k], landing[order[k]].rows[r])]])]

\* Where each row of source_df(fs) comes from: <<file, row number>>.
Origin(fs) ==
  LET order == Ascending(fs)
  IN  Flatten([k \in DOMAIN order |->
                 [r \in DOMAIN landing[order[k]].rows |-> <<order[k], r>>]])

\* The last batch id the Delta log records for this query (SetTransaction).
TxnVersion(log) ==
  IF log = <<>> THEN -1
  ELSE CHOOSE v \in {log[n].txn : n \in DOMAIN log} :
         \A n \in DOMAIN log : log[n].txn <= v

\* A sink that takes every batch it is handed.
Recorded_never(log, batchId) == FALSE

\* The Delta sink's addBatch begins with this test: a batch the log already
\* records is skipped.
Recorded(log, batchId) == TxnVersion(log) >= batchId

\* The Delta commit's conflict check: a transaction that read the query's
\* batch id is refused when a commit that sets it was made after the
\* snapshot it began on.  Every commit of this table is such a commit.
Conflicts(log, snapshot) == Len(log) > snapshot

\* The rows of the Delta table at BRONZE_PATH.
TableRows(log) == Flatten([n \in DOMAIN log |-> log[n].data.rows])

TableOrigin(log) == Flatten([n \in DOMAIN log |-> log[n].origin])

\* The files a query with current batch id b has seen: those of the
\* batches before b.
SeenBefore(b) == UNION {offsetLog[a] : a \in {x \in DOMAIN offsetLog : x < b}}

(* ------------------------------- inputs -------------------------------- *)

AllColumns == <<"customer_id", "full_name", "email", "phone", "national_id", "city">>

\* A one-row CSV file under the full header.  n is the length of the PII
\* values (at length 0 the fields are quoted empty strings); kind says
\* which fields are empty in the file and whether the phone is written in
\* digits only ("51289") or in digits after a sign ("+51289").  The national
\* id of the first file is "512", that of the next "g51".
Content(f, n, kind) ==
  [columns |-> AllColumns,
   rows |-> << [customer_id |-> Str(<<48 + f>>),
                full_name |-> IF kind = "all" THEN NULL ELSE Prefix(n),
                email |-> IF kind \in {"all", "email", "name"} THEN NULL
                          ELSE Str(SubSeq(Text, 3, n + 2)),
                phone |-> IF kind \in {"all", "name"} THEN NULL
                          ELSE IF kind = "digits" THEN Str(SubSeq(Text, 12, 16))
                          ELSE IF kind = "signed"
                          THEN Str(<<43>> \o SubSeq(Text, 12, 16))
                          ELSE Str(SubSeq(Text, 5, n + 4)),
                national_id |-> IF kind = "all" THEN NULL
                                ELSE Str(SubSeq(Text, 13 - f, 15 - f)),
                city |-> IF kind = "all" THEN NULL ELSE Str(<<82>>)] >>]

Kinds == {"none", "email", "name", "all", "digits", "signed"}

\* Longest PII value of the files drawn for the policy lists.
ShortLen == 1

\* The file that arrives as the f-th while the stream runs: a customer with
\* a name and a national id, without email and phone.
StreamContent(f) == Content(f, f, "name")

ViewContents ==
  {Content(1, n, kind) : n \in 0 .. MaxLen, kind \in Kinds}

\* Longest policy list drawn for ENCRYPT_COLUMNS, HASH_COLUMNS, DROP_COLUMNS.
MaxList == 2

\* The column names the drawn policy lists are made of; "phone" is in none
\* of the drawn input headers.
PolicyNames == {"email", "national_id", "phone"}

\* Lists of distinct names, as long as MaxList at most, and the lists that
\* name one column twice.
PolicyLists ==
  {s \in UNION {[1 .. k -> PolicyNames] : k \in 0 .. MaxList} :
     \A a, b \in DOMAIN s : a # b => s[a] # s[b]}
    \cup {<<c, c>> : c \in PolicyNames}

Headers ==
  {<<"customer_id", "email", "national_id", "city">>,
   <<"national_id", "city", "email">>}

\* Content(1, n, kind) read under a header with fewer columns.
Under(header, content) ==
  [columns |-> header,
   rows |-> [k \in DOMAIN content.rows |->
               [c \in Range(header) |-> content.rows[k][c]]]]

PolicyContents ==
  {Under(h, Content(1, n, kind)) :
     h \in Headers, n \in 0 .. ShortLen, kind \in Kinds}

\* Some column name is in more than one of the three policy lists.
Overlapping ==
  \/ Range(ENCRYPT_COLUMNS) \cap Range(HASH_COLUMNS) # {}
  \/ Range(ENCRYPT_COLUMNS) \cap Range(DROP_COLUMNS) # {}
  \/ Range(HASH_COLUMNS) \cap Range(DROP_COLUMNS) # {}

(* ------------------------------- actions ------------------------------- *)

NoResult == [view |-> "none", version |-> 0, key |-> 0, out |-> [rows |-> <<>>]]

\* No transaction of the sink is open.
NoPending == [snapshot |-> -1]

\* The states a query ends in when it raises.
Failures == {"ConcurrentUpdate", "ConcurrentTransaction", "AttributeError"}

Put(fn, k, v) == [x \in DOMAIN fn \cup {k} |-> IF x = k THEN v ELSE fn[x]]

Note(hist, b, i) ==
  Put(hist, b, (IF b \in DOMAIN hist THEN hist[b] ELSE {}) \cup {i})

\* A CSV file is uploaded to the landing Volume.
Land(f) ==
  /\ f \notin DOMAIN landing
  /\ f = Cardinality(DOMAIN landing) + 1
  /\ landing' = Put(landing, f, StreamContent(f))
  /\ UNCHANGED <<FERNET, ENCRYPT_COLUMNS, HASH_COLUMNS, DROP_COLUMNS, schema,
                 offsetLog, commitLog, bronze, pending, pc, cur, stops, result,
                 writers, cut, reruns>>

\* writeStream...start(BRONZE_PATH): the query starts from its checkpoint.
\* The first start infers the schema, which needs a file in the landing
\* Volume (the start raises without one).  A batch whose offsets are logged
\* but not committed is run again.
Start(i) ==
  /\ pc[i] = "stopped"
  /\ schema = <<>> => DOMAIN landing # {}
  /\ schema' = IF schema = <<>> THEN InferSchema(DOMAIN landing) ELSE schema
  /\ IF DOMAIN offsetLog = {}
     THEN /\ cur' = [cur EXCEPT ![i] = 0]
          /\ pc' = [pc EXCEPT ![i] = "idle"]
     ELSE LET last == CHOOSE b \in DOMAIN offsetLog :
                        \A a \in DOMAIN offsetLog : a <= b
          IN  IF last \in commitLog
              THEN /\ cur' = [cur EXCEPT ![i] = last + 1]
                   /\ pc' = [pc EXCEPT ![i] = "idle"]
              ELSE /\ cur' = [cur EXCEPT ![i] = last]
                   /\ pc' = [pc EXCEPT ![i] = "planned"]
  /\ UNCHANGED <<FERNET, ENCRYPT_COLUMNS, HASH_COLUMNS, DROP_COLUMNS, landing,
                 offsetLog, commitLog, bronze, pending, stops, result,
                 writers, cut, reruns>>

\* The offset log's add: a batch id is written only if it is not there yet.
CanAdd(log, batchId) == batchId \notin DOMAIN log

\* The query finds new files and writes the next batch's offsets; when the
\* batch id is already in the log (another query wrote it) the query fails.
Plan(i) ==
  /\ pc[i] = "idle"
  /\ LET new == DOMAIN landing \ SeenBefore(cur[i])
     IN  /\ new # {}
         /\ IF CanAdd(offsetLog, cur[i])
            THEN /\ offsetLog' = Put(offsetLog, cur[i], new)
                 /\ pc' = [pc EXCEPT ![i] = "planned"]
            ELSE /\ pc' = [pc EXCEPT ![i] = "ConcurrentUpdate"]
                 /\ UNCHANGED offsetLog
  /\ UNCHANGED <<FERNET, ENCRYPT_COLUMNS, HASH_COLUMNS, DROP_COLUMNS, landing,
                 schema, commitLog, bronze, pending, cur, stops, result,
                 writers, cut, reruns>>

\* The query runs its batch.  The Delta sink opens a transaction and reads
\* the batch id the table records; a recorded batch is skipped.  Else the
\* job reads the files, applies the policy and writes the data files: it
\* fails when encrypt_value raises, else the transaction is ready to commit.
RunBatch(i) ==
  /\ pc[i] = "planned"
  /\ reruns' = IF cur[i] \in cut THEN reruns \cup {cur[i]} ELSE reruns
  /\ IF Recorded(bronze, cur[i])
     THEN /\ pc' = [pc EXCEPT ![i] = "written"]
          /\ UNCHANGED pending
     ELSE LET fs == offsetLog[cur[i]]
              df == source_df(fs)
          IN  \E draws \in [Calls(df, ENCRYPT_COLUMNS) -> IVs] :
                LET data == apply_pii_policy(df, draws)
                IN  IF Raised(data) # {}
                    THEN /\ pc' = [pc EXCEPT ![i] = "AttributeError"]
                         /\ UNCHANGED pending
                    ELSE /\ pc' = [pc EXCEPT ![i] = "writing"]
                         /\ pending' =
                              [pending EXCEPT ![i] =
                                 [snapshot |-> Len(bronze),
                                  commit |-> [txn |-> cur[i], data |-> data,
                                              origin |-> Origin(fs)]]]
  /\ UNCHANGED <<FERNET, ENCRYPT_COLUMNS, HASH_COLUMNS, DROP_COLUMNS, landing,
                 schema, offsetLog, commitLog, bronze, cur, stops, result,
                 writers, cut>>

\* The sink's transaction commits: the batch is appended to the Delta log
\* with its batch id, unless the conflict check refuses it.
CommitTxn(i) ==
  /\ pc[i] = "writing"
  /\ IF Conflicts(bronze, pending[i].snapshot)
     THEN /\ pc' = [pc EXCEPT ![i] = "ConcurrentTransaction"]
          /\ UNCHANGED <<bronze, writers>>
     ELSE /\ bronze' = Append(bronze, pending[i].commit)
          /\ writers' = Note(writers, cur[i], i)
          /\ pc' = [pc EXCEPT ![i] = "written"]
  /\ pending' = [pending EXCEPT ![i] = NoPending]
  /\ UNCHANGED <<FERNET, ENCRYPT_COLUMNS, HASH_COLUMNS, DROP_COLUMNS, landing,
                 schema, offsetLog, commitLog, cur, stops, result, cut,
                 reruns>>

\* The query records the batch in the commit log and moves to the next;
\* when another query has recorded it already the query fails.
Commit(i) ==
  /\ pc[i] = "written"
  /\ IF cur[i] \in commitLog
     THEN /\ pc' = [pc EXCEPT ![i] = "ConcurrentUpdate"]
          /\ UNCHANGED <<commitLog, cur>>
     ELSE /\ commitLog' = commitLog \cup {cur[i]}
          /\ cur' = [cur EXCEPT ![i] = cur[i] + 1]
          /\ pc' = [pc EXCEPT ![i] = "idle"]
  /\ UNCHANGED <<FERNET, ENCRYPT_COLUMNS, HASH_COLUMNS, DROP_COLUMNS, landing,
                 schema, offsetLog, bronze, pending, stops, result,
                 writers, cut, reruns>>

\* The query stops at any point: query.stop(), a crash, the cluster ending.
Stop(i) ==
  /\ pc[i] # "stopped"
  /\ stops < MaxStops
  /\ stops' = stops + 1
  /\ pc' = [pc EXCEPT ![i] = "stopped"]
  /\ pending' = [pending EXCEPT ![i] = NoPending]
  /\ cut' = IF pc[i] = "written" /\ cur[i] \notin commitLog
            THEN cut \cup {cur[i]} ELSE cut
  /\ UNCHANGED <<FERNET, ENCRYPT_COLUMNS, HASH_COLUMNS, DROP_COLUMNS, landing,
                 schema, offsetLog, commitLog, bronze, cur, result,
                 writers, reruns>>

\* ENCRYPTION_KEY is set to another key and the notebook is run again.
RotateKey ==
  /\ \A i \in Instances : pc[i] = "stopped"
  /\ \E k \in Keys \ {FERNET} : FERNET' = k
  /\ UNCHANGED <<ENCRYPT_COLUMNS, HASH_COLUMNS, DROP_COLUMNS, landing, schema,
                 offsetLog, commitLog, bronze, pending, pc, cur, stops, result,
                 writers, cut, reruns>>

\* The values encrypt_value is called on: None, a number, the empty string
\* and strings with and without a character outside ASCII.
FieldValues == {NULL, Long(512), Str(<<>>), Prefix(1), Prefix(3), Prefix(MaxLen)}

\* A call of encrypt_value on a value.
CallEncrypt ==
  /\ \E value \in FieldValues, iv \in IVs :
       result' = [view |-> "encrypt_value", version |-> 0, key |-> FERNET,
                  arg |-> value, out |-> encrypt_value(value, iv)]
  /\ UNCHANGED <<FERNET, ENCRYPT_COLUMNS, HASH_COLUMNS, DROP_COLUMNS, landing,
                 schema, offsetLog, commitLog, bronze, pending, pc, cur, stops,
                 writers, cut, reruns>>

\* A call of decrypt_value on what encrypt_value has returned for plain,
\* or on plain itself.
CallDecrypt ==
  /\ result.view = "encrypt_value"
  /\ \E of \in {"out", "arg"} :
       LET value == IF of = "out" THEN result.out ELSE result.arg
       IN  /\ ~IsRaise(value)
           /\ result' = [view |-> "decrypt_value", version |-> 0,
                         key |-> FERNET, plain |-> result.arg, of |-> of,
                         arg |-> value, out |-> decrypt_one(value)]
  /\ UNCHANGED <<FERNET, ENCRYPT_COLUMNS, HASH_COLUMNS, DROP_COLUMNS, landing,
                 schema, offsetLog, commitLog, bronze, pending, pc, cur, stops,
                 writers, cut, reruns>>

\* SELECT * FROM v_customers_clear.
QueryClear ==
  /\ bronze # <<>>
  /\ result' = [view |-> "clear", version |-> Len(bronze), key |-> FERNET,
                out |-> v_customers_clear(TableRows(bronze))]
  /\ UNCHANGED <<FERNET, ENCRYPT_COLUMNS, HASH_COLUMNS, DROP_COLUMNS, landing,
                 schema, offsetLog, commitLog, bronze, pending, pc, cur, stops,
                 writers, cut, reruns>>

\* SELECT * FROM v_customers_masked.
QueryMasked ==
  /\ bronze # <<>>
  /\ result' = [view |-> "masked", version |-> Len(bronze), key |-> FERNET,
                out |-> v_customers_masked(TableRows(bronze))]
  /\ UNCHANGED <<FERNET, ENCRYPT_COLUMNS, HASH_COLUMNS, DROP_COLUMNS, landing,
                 schema, offsetLog, commitLog, bronze, pending, pc, cur, stops,
                 writers, cut, reruns>>

(* ---------------------------- specifications --------------------------- *)

Idle ==
  /\ schema = <<>>
  /\ pending = [i \in Instances |-> NoPending]
  /\ offsetLog = <<>>
  /\ commitLog = {}
  /\ bronze = <<>>
  /\ pc = [i \in Instances |-> "stopped"]
  /\ cur = [i \in Instances |-> 0]
  /\ stops = 0
  /\ result = NoResult
  /\ writers = <<>>
  /\ cut = {}
  /\ reruns = {}

NotebookPolicy ==
  /\ ENCRYPT_COLUMNS = <<"full_name", "email", "phone">>
  /\ HASH_COLUMNS = <<"national_id">>
  /\ DROP_COLUMNS = <<>>

\* The stream: files arrive and up to two queries run against the same
\* checkpoint and table, stopping and restarting at any point.
Init ==
  /\ FERNET = 1
  /\ NotebookPolicy
  /\ landing = <<>>
  /\ Idle

Next ==
  \/ \E f \in Files : Land(f)
  \/ \E i \in Instances : Start(i)
  \/ \E i \in Instances : Plan(i)
  \/ \E i \in Instances : RunBatch(i)
  \/ \E i \in Instances : CommitTxn(i)
  \/ \E i \in Instances : Commit(i)
  \/ \E i \in Instances : Stop(i)

Spec == Init /\ [][Next]_vars

\* The notebook over several runs: one query ingests files as they arrive,
\* is stopped and started again, ENCRYPTION_KEY is changed between runs, and
\* the views are queried.
NextKeys ==
  \/ \E f \in Files : Land(f)
  \/ Start(1)
  \/ Plan(1)
  \/ RunBatch(1)
  \/ CommitTxn(1)
  \/ Commit(1)
  \/ Stop(1)
  \/ RotateKey
  \/ QueryClear
  \/ QueryMasked

SpecKeys == Init /\ [][NextKeys]_vars

\* One query ingests one file of any content, the views are queried, and
\* encrypt_value and decrypt_value are called on values of any length.
InitViews ==
  /\ FERNET \in Keys
  /\ NotebookPolicy
  /\ \E content \in ViewContents : landing = Put(<<>>, 1, content)
  /\ Idle

NextViews ==
  \/ Start(1)
  \/ Plan(1)
  \/ RunBatch(1)
  \/ CommitTxn(1)
  \/ Commit(1)
  \/ QueryClear
  \/ QueryMasked
  \/ CallEncrypt
  \/ CallDecrypt

SpecViews == InitViews /\ [][NextViews]_vars

\* The notebook run once under any policy lists, on one file of any header.
InitPolicy ==
  /\ FERNET = 1
  /\ ENCRYPT_COLUMNS \in PolicyLists
  /\ HASH_COLUMNS \in PolicyLists
  /\ DROP_COLUMNS \in PolicyLists
  /\ \E content \in PolicyContents : landing = Put(<<>>, 1, content)
  /\ Idle

NextPolicy ==
  \/ Start(1)
  \/ Plan(1)
  \/ RunBatch(1)
  \/ CommitTxn(1)
  \/ Commit(1)

SpecPolicy == InitPolicy /\ [][NextPolicy]_vars

(* ------------------------------ properties ----------------------------- *)

\* The landing-file row a table row was made from, as the file has it.
Original(src) == landing[src[1]].rows[src[2]]

\* The same row as the stream read it.
Parsed(src) == ParseRow(schema, src[1], Original(src))

\* The stored row holds the field of column c as the file has it: in the
\* column itself or in the rescued data.
Shows(stored, c, field) ==
  \/ c \in DOMAIN stored /\ stored[c] = field
  \/ /\ "_rescued_data" \in DOMAIN stored
     /\ stored["_rescued_data"] # NULL
     /\ c \in DOMAIN stored["_rescued_data"].rescued
     /\ stored["_rescued_data"].rescued[c] = field

\* How many rows of the table come from row r of file f.
Occurrences(f, r) ==
  LET from == TableOrigin(bronze)
  IN  Cardinality({k \in DOMAIN from : from[k] = <<f, r>>})

\* The batch whose offsets hold file f, as a set (empty before f is planned).
BatchOf(f) == {b \in DOMAIN offsetLog : f \in offsetLog[b]}

\* C1: exactly-once commit per source file.  No row of a landing file is in
\* the table more than once, whatever stops and restarts happened between
\* the table write and the commit, and once the file's batch is committed
\* every row of the file is in the table exactly once.
C1_ExactlyOnce ==
  \A f \in DOMAIN landing : \A r \in DOMAIN landing[f].rows :
    /\ Occurrences(f, r) <= 1
    /\ BatchOf(f) \cap commitLog # {} => Occurrences(f, r) = 1

\* A batch whose query stopped after the table write and before the commit
\* has been run again by a restarted query and committed.
C1_Witness ==
  \E b \in reruns : /\ b \in cut
                    /\ b \in commitLog
                    /\ \A f \in offsetLog[b] : Occurrences(f, 1) = 1

\* C2: plaintext never reaches the table.  In every commit of the Delta log
\* each ENCRYPT_COLUMNS column of the input holds a Fernet token or NULL,
\* each HASH_COLUMNS column holds a digest or NULL, and no non-null input
\* value of such a column is anywhere in the stored row as the file has it.
C2_NoPlaintextStored ==
  \A n \in DOMAIN bronze : \A k \in DOMAIN bronze[n].data.rows :
    LET stored == bronze[n].data.rows[k]
        input == Original(bronze[n].origin[k])
    IN  /\ \A c \in Range(ENCRYPT_COLUMNS) \cap DOMAIN input :
             /\ c \in DOMAIN stored
             /\ IsToken(stored[c]) \/ stored[c] = NULL
             /\ input[c] # NULL => ~Shows(stored, c, input[c])
        /\ \A c \in Range(HASH_COLUMNS) \cap DOMAIN input :
             /\ c \in DOMAIN stored
             /\ IsDigest(stored[c]) \/ stored[c] = NULL
             /\ input[c] # NULL => ~Shows(stored, c, input[c])

\* Query i is running batch b: it has the batch's offsets and has not yet
\* committed the batch or ended.
Holds(i, b) == pc[i] \in {"planned", "writing", "written"} /\ cur[i] = b

\* C3: two queries on the same landing location and checkpoint.  No two
\* queries run the same batch (own its files) at the same time; a query
\* that loses a batch to the other skips it and does not end with an
\* exception; a file is in at most one batch and its rows are appended to
\* the table by at most one query, at most once.
C3_AtomicClaim ==
  /\ \A i, j \in Instances : \A b \in DOMAIN offsetLog :
       Holds(i, b) /\ Holds(j, b) => i = j
  /\ \A i \in Instances :
       pc[i] \notin {"ConcurrentUpdate", "ConcurrentTransaction"}
  /\ \A f \in DOMAIN landing : Cardinality(BatchOf(f)) <= 1
  /\ \A b \in DOMAIN writers : Cardinality(writers[b]) <= 1
  /\ \A f \in DOMAIN landing : \A r \in DOMAIN landing[f].rows :
       Occurrences(f, r) <= 1

\* The table rows, and where they come from, that the last query read.
ReadRows == TableRows(SubSeq(bronze, 1, result.version))

ReadOrigin == TableOrigin(SubSeq(bronze, 1, result.version))

Encrypted == {"full_name", "email", "phone"}

\* C4: an overlapping policy is rejected before any record is transformed
\* or written.  As long as a column name is in more than one policy list no
\* batch is run and the table stays empty.
C4_OverlapRejected ==
  Overlapping => /\ bronze = <<>>
                 /\ \A i \in Instances : pc[i] \notin {"writing", "written"}

\* C5: encrypt/decrypt round trip.  decrypt_value gives back every string
\* encrypt_value was called on, the empty string included; every stored
\* token decrypts under the configured key to the value the stream read
\* from the file, and the clear view returns those values.
C5_RoundTrip ==
  /\ result.view = "decrypt_value" /\ IsStr(result.plain) /\ result.of = "out"
       => result.out = result.plain
  /\ \A n \in DOMAIN bronze : \A k \in DOMAIN bronze[n].data.rows :
       \A c \in Encrypted :
         Parsed(bronze[n].origin[k])[c] # NULL
           => decrypt_one(bronze[n].data.rows[k][c])
                = Parsed(bronze[n].origin[k])[c]
  /\ result.view = "clear"
       => /\ ~IsRaise(result.out)
          /\ DOMAIN result.out.rows = DOMAIN ReadRows
          /\ \A k \in DOMAIN result.out.rows : \A c \in Encrypted :
               result.out.rows[k][c] = Parsed(ReadOrigin[k])[c]

\* A file whose name has a character outside ASCII has been stored as a
\* token, and decrypt_value has given back the empty string from its token.
C5_Witness ==
  /\ result.view = "decrypt_value"
  /\ result.plain = Str(<<>>)
  /\ result.of = "out"
  /\ IsToken(result.arg)
  /\ result.out = Str(<<>>)
  /\ \E n \in DOMAIN bronze :
       /\ Parsed(bronze[n].origin[1])["full_name"] = Prefix(3)
       /\ IsToken(bronze[n].data.rows[1]["full_name"])

\* C6: null propagation.  encrypt_value and decrypt_value return null for
\* null and for no other value (not for the empty string).  A null value
\* of the batch read from the files is stored as null by encryption and by
\* hashing and a non-null value is not; a
\* null stored value decrypts to null and is null in the clear and in the
\* masked view, and a non-null one is not.
C6_NullPropagation ==
  /\ result.view \in {"encrypt_value", "decrypt_value"}
       => ((result.arg = NULL) <=> (result.out = NULL))
  /\ \A n \in DOMAIN bronze : \A k \in DOMAIN bronze[n].data.rows :
       LET stored == bronze[n].data.rows[k]
           input == Parsed(bronze[n].origin[k])
       IN  /\ \A c \in Encrypted \cup {"national_id"} :
                (input[c] = NULL) <=> (stored[c] = NULL)
           /\ \A c \in Encrypted :
                (stored[c] = NULL) <=> (decrypt_one(stored[c]) = NULL)
  /\ result.view = "clear"
       => /\ ~IsRaise(result.out)
          /\ \A k \in DOMAIN result.out.rows : \A c \in Encrypted :
               (ReadRows[k][c] = NULL) <=> (result.out.rows[k][c] = NULL)
  /\ result.view = "masked"
       => /\ ~IsRaise(result.out)
          /\ \A k \in DOMAIN result.out.rows :
               /\ (ReadRows[k]["full_name"] = NULL)
                     <=> (result.out.rows[k]["full_name_masked"] = NULL)
               /\ (ReadRows[k]["email"] = NULL)
                     <=> (result.out.rows[k]["email_masked"] = NULL)
               /\ (ReadRows[k]["phone"] = NULL)
                     <=> (result.out.rows[k]["phone_masked"] = NULL)

\* The masked view has returned a row whose stored email is null and whose
\* stored name is not.
C6_Witness ==
  /\ result.view = "masked"
  /\ ~IsRaise(result.out)
  /\ \E k \in DOMAIN result.out.rows :
       /\ ReadRows[k]["email"] = NULL
       /\ Parsed(ReadOrigin[k])["email"] = NULL
       /\ ReadRows[k]["full_name"] # NULL

\* The token verifies under key k.
Verifies(k, token) == ~IsRaise(FernetDecrypt(k, token))

\* C7: field-level decryption failure.  A query on the clear view is never
\* aborted: it returns every row of the table, with the original value in
\* each encrypted field whose token verifies under the key of the query and
\* a null marker in each field whose token does not.
C7_FieldLevelFailure ==
  result.view = "clear"
    => /\ ~IsRaise(result.out)
       /\ DOMAIN result.out.rows = DOMAIN ReadRows
       /\ \A k \in DOMAIN result.out.rows : \A c \in Encrypted :
            result.out.rows[k][c] =
              IF ReadRows[k][c] = NULL \/ ~Verifies(result.key, ReadRows[k][c])
              THEN NULL
              ELSE Parsed(ReadOrigin[k])[c]

\* s is t with some characters before it and some after it.
Contains(t, s) ==
  \E i \in 0 .. (Len(t) - Len(s)) : SubSeq(t, i + 1, i + Len(s)) = s

\* The masked form of a non-null value: marker and the kept characters.
MaskedAs(out, v, side, keep) ==
  LET n == Len(v.str)
      kept == IF n <= keep THEN v.str
              ELSE IF side = "first" THEN SubSeq(v.str, 1, keep)
              ELSE SubSeq(v.str, n - keep + 1, n)
  IN  /\ out = Str(IF side = "first" THEN kept \o Marker ELSE Marker \o kept)
      /\ Len(kept) = Min(n, keep)

\* C8 as stated: the masked output of a non-null, non-empty value of any
\* length is the marker and the kept characters and never contains the
\* whole value.
C8_NeverFullValue ==
  result.view = "masked" /\ ~IsRaise(result.out)
    => \A k \in DOMAIN result.out.rows :
         LET input == Parsed(ReadOrigin[k])
             out == result.out.rows[k]
         IN  /\ input["full_name"] \notin {NULL, Str(<<>>)}
                  => /\ MaskedAs(out["full_name_masked"], input["full_name"], "first", 1)
                     /\ ~Contains(out["full_name_masked"].str, input["full_name"].str)
             /\ input["email"] \notin {NULL, Str(<<>>)}
                  => /\ MaskedAs(out["email_masked"], input["email"], "last", 10)
                     /\ ~Contains(out["email_masked"].str, input["email"].str)
             /\ input["phone"] \notin {NULL, Str(<<>>)}
                  => /\ MaskedAs(out["phone_masked"], input["phone"], "last", 4)
                     /\ ~Contains(out["phone_masked"].str, input["phone"].str)

\* The masked output shows fewer characters than the value has.
Shortened(out, v, keep) ==
  Len(out.str) = keep + Len(Marker) /\ keep < Len(v.str)

\* C8, amended: the masked output of a non-null value is the marker and the
\* kept characters (the first 1 of full_name, the last 10 of email, the last
\* 4 of phone).  A value longer than the keep-length is shown only in its
\* kept characters; a value no longer than the keep-length is shown whole.
C8_MaskKeepsOnly ==
  result.view = "masked"
    => /\ ~IsRaise(result.out)
       /\ \A k \in DOMAIN result.out.rows :
            LET input == Parsed(ReadOrigin[k])
                out == result.out.rows[k]
            IN  /\ input["full_name"] # NULL
                     => /\ MaskedAs(out["full_name_masked"], input["full_name"], "first", 1)
                        /\ Len(input["full_name"].str) > 1
                             => Shortened(out["full_name_masked"], input["full_name"], 1)
                        /\ Len(input["full_name"].str) <= 1
                             => Contains(out["full_name_masked"].str, input["full_name"].str)
                /\ input["email"] # NULL
                     => /\ MaskedAs(out["email_masked"], input["email"], "last", 10)
                        /\ Len(input["email"].str) > 10
                             => Shortened(out["email_masked"], input["email"], 10)
                        /\ Len(input["email"].str) <= 10
                             => Contains(out["email_masked"].str, input["email"].str)
                /\ input["phone"] # NULL
                     => /\ MaskedAs(out["phone_masked"], input["phone"], "last", 4)
                        /\ Len(input["phone"].str) > 4
                             => Shortened(out["phone_masked"], input["phone"], 4)
                        /\ Len(input["phone"].str) <= 4
                             => Contains(out["phone_masked"].str, input["phone"].str)

\* The masked view has returned a row whose email is longer than the ten
\* characters kept, and so are its name and its phone.
C8_Witness ==
  /\ result.view = "masked"
  /\ ~IsRaise(result.out)
  /\ \E k \in DOMAIN result.out.rows :
       /\ Parsed(ReadOrigin[k])["email"] # NULL
       /\ Len(Parsed(ReadOrigin[k])["email"].str) > 10
       /\ Len(result.out.rows[k]["email_masked"].str) = 13

\* C9: key rotation keeps old data readable.  Whatever key the notebook is
\* configured with when a view is queried, the query succeeds, and the clear
\* view returns for every row, those written under an earlier key included,
\* the values read from the file.
C9_OldKeyReadable ==
  result.view \in {"clear", "masked"}
    => /\ ~IsRaise(result.out)
       /\ result.view = "clear"
            => \A k \in DOMAIN result.out.rows : \A c \in Encrypted :
                 result.out.rows[k][c] = Parsed(ReadOrigin[k])[c]

\* C10: frame of apply_pii_policy.  Under policy lists that do not overlap,
\* the stored columns are the columns of the batch read from the files
\* without those of DROP_COLUMNS, in the batch's order; a column in no
\* policy list is stored as read; a policy column that the batch does not
\* have adds nothing.
C10_Frame ==
  ~Overlapping
    => \A n \in DOMAIN bronze :
         LET data == bronze[n].data
             input == source_df(offsetLog[bronze[n].txn])
             listed == Range(ENCRYPT_COLUMNS) \cup Range(HASH_COLUMNS)
                         \cup Range(DROP_COLUMNS)
         IN  /\ data.columns =
                  SelectSeq(input.columns, LAMBDA c : c \notin Range(DROP_COLUMNS))
             /\ DOMAIN data.rows = DOMAIN input.rows
             /\ \A k \in DOMAIN data.rows :
                  /\ DOMAIN data.rows[k] = Range(data.columns)
                  /\ \A c \in Range(input.columns) \ listed :
                       data.rows[k][c] = input.rows[k][c]

\* A batch was written under a policy that encrypts one input column, drops
\* another and lists a column the input does not have.
C10_Witness ==
  /\ ~Overlapping
  /\ bronze # <<>>
  /\ "phone" \in Range(HASH_COLUMNS)
  /\ "email" \in Range(ENCRYPT_COLUMNS)
  /\ "national_id" \in Range(DROP_COLUMNS)
  /\ bronze[1].data.columns = <<"city", "email", "_rescued_data">>

====
